---- MODULE Spec2Model ----
(***************************************************************************)
(* util.crypto (util-src/crypto.c): the Lua binding over OpenSSL for       *)
(* sign/verify, AES-GCM and the ECDSA signature codec.                     *)
(*                                                                         *)
(* Every Lua-callable function is one action; the Lua state is single      *)
(* threaded, so a call runs from entry to return (or to the raised error)  *)
(* without interleaving.  `last` records what the most recent call did:    *)
(* its outcome, the native calls it made in order, the native objects it   *)
(* acquired and released, and the accounting of its output buffer.         *)
(* The outcomes of native (OpenSSL) calls are inputs of the actions.       *)
(***************************************************************************)
EXTENDS Integers, Sequences, FiniteSets

VARIABLES keys, last, LUAL_BUFFERSIZE

vars == <<keys, last, LUAL_BUFFERSIZE>>

(* ------------------------------ bounds -------------------------------- *)

\* number of key handles alive in the Lua state at once
MaxKeys == 1
\* longest plaintext handed to AES-GCM encrypt
MaxPlainLen == 1
\* byte values are 0 .. ByteTop
ByteTop == 1

(* --------------------------- native keys ------------------------------ *)

\* key types as EVP_PKEY_id reports them; NoType is the 0 that means
\* "no type wanted" in pkey_from_arg and "no type stored" in push_pkey
NoType == "none"
NID_ED25519 == "ED25519"
NID_rsaEncryption == "rsaEncryption"
NID_rsassaPss == "rsassaPss"
NID_X9_62_id_ecPublicKey == "id-ecPublicKey"

\* the NULL EVP_PKEY pointer
NullKey == [type |-> NoType, size |-> 0]

\* native keys: the type and the signature size EVP_DigestSign's probe
\* reports (Ed25519 64; RSA the modulus size, 2048 and 16384 bit; ECDSA
\* P-256 the largest DER encoding; an RSA-PSS-only key)
NativeKeys ==
    { [type |-> NID_ED25519, size |-> 64],
      [type |-> NID_rsaEncryption, size |-> 256],
      [type |-> NID_rsaEncryption, size |-> 2048],
      [type |-> NID_X9_62_id_ecPublicKey, size |-> 72],
      [type |-> NID_rsassaPss, size |-> 256] }

\* lengths the real signing call can report for a key: fixed for Ed25519
\* and RSA, the DER length of (r, s) for ECDSA
ActualSigLens(pkey) ==
    IF pkey.type = NID_X9_62_id_ecPublicKey
    THEN {pkey.size - 2, pkey.size}
    ELSE {pkey.size}

\* sizes of luaL_Buffer's built-in buffer in the supported Lua builds
\* (Lua 5.4 on 64 bit: 1024; Lua 5.1 to 5.3: 8192)
LuaBufferSizes == {1024, 8192}

(* ------------------------ the record of a call ------------------------ *)

\* a key or iv string: its length and which of the strings of that length
Str(len, id) == [len |-> len, id |-> id]

\* no encrypt made the ciphertext argument
NoBox == [key |-> Str(0, 0), iv |-> Str(0, 0), pt |-> << >>, ct |-> << >>]

NoKey == [pkey |-> NullKey, type |-> NoType, private |-> FALSE]

Blank ==
    [ op       |-> "none",    \* the function called
      key      |-> NoKey,     \* the key handle passed (if any)
      outcome  |-> "none",    \* what the caller gets
      calls    |-> << >>,     \* native calls made, in order
      rets     |-> << >>,     \* what each of them returned
      acquired |-> << >>,     \* native objects acquired for the call
      released |-> << >>,     \* native objects released by the call
      cap      |-> 0,         \* capacity of the prepared output buffer
      written  |-> 0,         \* most bytes written into that buffer
      probe    |-> 0,         \* length the probe call reported
      len      |-> 0,         \* length of the returned string
      bytes    |-> << >>,     \* returned string (AES-GCM)
      buffer   |-> << >>,     \* bytes the native calls put in the buffer
      ckey     |-> Str(0, 0), \* AES-GCM key argument
      iv       |-> Str(0, 0), \* AES-GCM iv argument
      arg      |-> << >>,     \* the plaintext / ciphertext argument
      nargs    |-> 0,         \* lua_gettop(L) (AES-GCM)
      sealed   |-> NoBox ]    \* what was sent, for the ciphertext argument

(* --------------------------- argument checks -------------------------- *)

\* push_pkey: a userdata holding pkey with the uservalue table
\* {type = type, private = true|nil}
push_pkey(pkey, type, privkey) ==
    [pkey |-> pkey, type |-> type, private |-> privkey]

\* pkey_from_arg without the check of has_private_material
pkey_from_arg_noprivate(h, type, require_private) ==
    IF type # NoType /\ h.type # type THEN "TypeMismatch" ELSE "ok"

\* pkey_from_arg: "ok", or the argument error it raises
pkey_from_arg(h, type, require_private) ==
    IF type # NoType /\ h.type # type
    THEN "TypeMismatch"           \* "unexpected key type"
    ELSE IF require_private /\ ~h.private
         THEN "CapabilityMismatch" \* "private key expected, got public key only"
         ELSE "ok"

\* the expected type without the mapping of PSS to RSA keys
ExpectedType_nomap(key_type) == key_type

\* (key_type!=NID_rsassaPss)?key_type:NID_rsaEncryption
ExpectedType(key_type) ==
    IF key_type # NID_rsassaPss THEN key_type ELSE NID_rsaEncryption

\* new_managed_X: the object is owned by the call and released when the
\* call ends, on every path
Managed(kind) == [acquired |-> <<kind>>, released |-> <<kind>>]

(* ------------------------------ key handles --------------------------- *)

(* Lgenerate_ed25519_keypair: no return value of the native calls is      *)
(* looked at; pkey stays NULL unless EVP_PKEY_keygen succeeded.           *)
Lgenerate_ed25519_keypair ==
    \E fail \in {"none", "ctx", "init", "keygen"} :
      LET pkey == IF fail = "none" THEN [type |-> NID_ED25519, size |-> 64]
                  ELSE NullKey
          h == push_pkey(pkey, NID_ED25519, TRUE)
          held == IF fail = "ctx" THEN << >> ELSE <<"EVP_PKEY_CTX">>
      IN /\ Cardinality(keys \cup {h}) <= MaxKeys
         /\ keys' = keys \cup {h}
         /\ last' = [Blank EXCEPT
                !.op = "generate_ed25519_keypair",
                !.key = h,
                !.outcome = "handle",
                !.calls = <<"EVP_PKEY_CTX_new_id", "EVP_PKEY_keygen_init",
                            "EVP_PKEY_keygen">>,
                !.rets = <<IF fail = "ctx" THEN 0 ELSE 1,
                           IF fail \in {"ctx", "init"} THEN 0 ELSE 1,
                           IF fail = "none" THEN 1 ELSE 0>>,
                !.acquired = held,
                !.released = held]
         /\ UNCHANGED LUAL_BUFFERSIZE

\* PEM texts the caller may pass: the encoding of a private or of a public
\* key, or text that is no PEM at all; NotAString is an argument that
\* luaL_checklstring rejects
PemTexts ==
    [kind : {"PRIVATE KEY", "PUBLIC KEY"}, key : NativeKeys]
        \cup {[kind |-> "garbage", key |-> NullKey]}

NotAString == [kind |-> "not a string", key |-> NullKey]

\* PEM_read_bio_PrivateKey / PEM_read_bio_PUBKEY: the key, or NULL
PEM_read_bio(want, text) ==
    IF text.kind = want THEN text.key ELSE NullKey

\* the body of Limport_private_pem and Limport_public_pem
import_pem(op, want, privkey) ==
    \E text \in PemTexts \cup {NotAString} :
      LET bio == Managed("BIO")
          pkey == PEM_read_bio(want, text)
          h == push_pkey(pkey, pkey.type, privkey)
          base == [Blank EXCEPT !.op = op,
                                !.acquired = bio.acquired,
                                !.released = bio.released]
          read == [base EXCEPT !.calls = <<"BIO_write", "PEM_read_bio">>,
                               !.rets = <<1, IF pkey = NullKey THEN 0 ELSE 1>>]
      IN IF text = NotAString
         THEN /\ last' = [base EXCEPT !.outcome = "BadArgument"]
              /\ UNCHANGED <<keys, LUAL_BUFFERSIZE>>
         ELSE IF pkey = NullKey
         THEN /\ last' = [read EXCEPT !.outcome = "ParseFailure"]
              /\ UNCHANGED <<keys, LUAL_BUFFERSIZE>>
         ELSE /\ Cardinality(keys \cup {h}) <= MaxKeys
              /\ keys' = keys \cup {h}
              /\ last' = [read EXCEPT !.outcome = "handle", !.key = h]
              /\ UNCHANGED LUAL_BUFFERSIZE

Limport_private_pem == import_pem("import_private_pem", "PRIVATE KEY", TRUE)

Limport_public_pem == import_pem("import_public_pem", "PUBLIC KEY", FALSE)

\* Lpkey_finalizer: the handle is collected and its native key freed
Lpkey_finalizer ==
    \E h \in keys :
      /\ keys' = keys \ {h}
      /\ UNCHANGED <<last, LUAL_BUFFERSIZE>>

\* the body of Lpkey_meth_public_pem and Lpkey_meth_private_pem
export_pem(op, require_private) ==
    \E h \in keys, written \in {"pem", "empty", "fail"} :
      LET chk == pkey_from_arg(h, NoType, require_private)
          bio == Managed("BIO")
          base == [Blank EXCEPT !.op = op, !.key = h]
          good == written # "fail" /\ h.pkey # NullKey
      IN /\ last' =
              IF chk # "ok" THEN [base EXCEPT !.outcome = chk]
              ELSE [base EXCEPT
                      !.acquired = bio.acquired,
                      !.released = bio.released,
                      !.calls = <<"PEM_write_bio">>,
                      !.rets = <<IF good THEN 1 ELSE 0>>,
                      !.outcome = IF good /\ written = "pem"
                                  THEN "pem" ELSE "EncodeFailure"]
         /\ UNCHANGED <<keys, LUAL_BUFFERSIZE>>

Lpkey_meth_public_pem == export_pem("public_pem", FALSE)

Lpkey_meth_private_pem == export_pem("private_pem", TRUE)

(* ---------------------------- sign / verify --------------------------- *)

\* writing `written` bytes into a buffer of `cap` bytes is undefined
\* behaviour when it overruns: the call may go on or the process may die
Overruns(cap, written) == written > cap

\* values a native call returns when it does not return 1
Failures == {0, -1}

\* EVP_PKEY_CTX_set_rsa_padding: called for RSA-PSS only
Padding(key_type, padret) ==
    IF key_type = NID_rsassaPss
    THEN [calls |-> <<"EVP_PKEY_CTX_set_rsa_padding">>, rets |-> <<padret>>]
    ELSE [calls |-> << >>, rets |-> << >>]

\* base_evp_sign(L, key_type, digest_type)
base_evp_sign(op, key_type) ==
    \E h \in keys :
    \E initret \in {1} \cup Failures, padret \in {1, 0},
       proberet \in {1} \cup Failures, signret \in {1} \cup Failures,
       actual \in ActualSigLens(h.pkey), dies \in BOOLEAN :
      LET chk == pkey_from_arg(h, ExpectedType(key_type), TRUE)
          ctx == Managed("EVP_MD_CTX")
          base == [Blank EXCEPT !.op = op, !.key = h]
          held == [base EXCEPT !.acquired = ctx.acquired,
                               !.released = ctx.released]
          init == IF h.pkey = NullKey THEN 0 ELSE initret
          pad == Padding(key_type, padret)
          sig_len == h.pkey.size
          c1 == <<"EVP_DigestSignInit">>
          c2 == c1 \o pad.calls \o <<"EVP_DigestSign(NULL)">>
          r2 == <<init>> \o pad.rets \o <<proberet>>
          \* luaL_prepbuffer, then memset(.., 0, sig_len)
          filled == [held EXCEPT !.probe = sig_len,
                                 !.cap = LUAL_BUFFERSIZE,
                                 !.written = sig_len,
                                 !.calls = c2, !.rets = r2]
          signed == [filled EXCEPT !.calls = c2 \o <<"EVP_DigestSign">>,
                                   !.rets = r2 \o <<signret>>]
      IN \* what a native call that is not reached would return is no input
         \* of the run: it is held at 1
         /\ init = 1 \/ (padret = 1 /\ proberet = 1)
         /\ (init = 1 /\ proberet = 1) \/ (signret = 1 /\ ~dies)
         /\ dies => Overruns(LUAL_BUFFERSIZE, sig_len)
         /\ chk = "ok" \/ (initret = 1 /\ padret = 1 /\ proberet = 1
                             /\ signret = 1 /\ ~dies
                             /\ actual = h.pkey.size)
         /\ last' =
              IF chk # "ok" THEN [base EXCEPT !.outcome = chk]
              ELSE IF init # 1
              THEN [held EXCEPT !.outcome = "CryptoFailure",
                                !.calls = c1, !.rets = <<init>>]
              ELSE IF proberet # 1
              THEN [held EXCEPT !.outcome = "CryptoFailure",
                                !.calls = c2, !.rets = r2]
              ELSE IF dies
              THEN [filled EXCEPT !.outcome = "crash"]
              ELSE IF signret # 1
              THEN [signed EXCEPT !.outcome = "CryptoFailure"]
              ELSE [signed EXCEPT !.outcome = "signature",
                                  !.written = IF actual > sig_len
                                              THEN actual ELSE sig_len,
                                  !.len = actual]
         /\ UNCHANGED <<keys, LUAL_BUFFERSIZE>>

Led25519_sign == base_evp_sign("ed25519_sign", NID_ED25519)

Lrsassa_pkcs1_256_sign == base_evp_sign("rsassa_pkcs1_256_sign", NID_rsaEncryption)

Lrsassa_pss_256_sign == base_evp_sign("rsassa_pss_256_sign", NID_rsassaPss)

Lecdsa_sha256_sign == base_evp_sign("ecdsa_sha256_sign", NID_X9_62_id_ecPublicKey)

\* values EVP_DigestVerify returns: 1 verified, 0 did not verify, negative
\* for any other failure
VerifyReturns == {1, 0, -1, -2}

\* the result with every failure of the native call reported as `false`
VerifyResult_conflated(result) ==
    IF result = 1 THEN "valid" ELSE "invalid"

\* lines 145-152: false for 0, nil for any other value but 1, true for 1
VerifyResult(result) ==
    IF result = 0 THEN "invalid"
    ELSE IF result # 1 THEN "error"
    ELSE "valid"

\* base_evp_verify(L, key_type, digest_type)
base_evp_verify(op, key_type) ==
    \E h \in keys, argsok \in BOOLEAN :
    \E initret \in {1} \cup Failures, padret \in {1, 0},
       result \in VerifyReturns :
      LET chk == pkey_from_arg(h, ExpectedType(key_type), FALSE)
          base == [Blank EXCEPT !.op = op, !.key = h]
          held == [base EXCEPT !.acquired = <<"EVP_MD_CTX">>,
                               !.released = <<"EVP_MD_CTX">>]
          init == IF h.pkey = NullKey THEN 0 ELSE initret
          pad == Padding(key_type, padret)
      IN \* as in base_evp_sign, calls that are not reached return 1
         /\ init = 1 \/ (padret = 1 /\ result = 1)
         /\ (chk = "ok" /\ argsok)
                \/ (initret = 1 /\ padret = 1 /\ result = 1)
         /\ last' =
              IF chk # "ok" THEN [base EXCEPT !.outcome = chk]
              ELSE IF ~argsok THEN [base EXCEPT !.outcome = "BadArgument"]
              ELSE IF init # 1
              THEN [held EXCEPT !.outcome = "error",
                                !.calls = <<"EVP_DigestVerifyInit">>,
                                !.rets = <<init>>]
              ELSE [held EXCEPT !.outcome = VerifyResult(result),
                                !.calls = <<"EVP_DigestVerifyInit">>
                                            \o pad.calls
                                            \o <<"EVP_DigestVerify">>,
                                !.rets = <<init>> \o pad.rets \o <<result>>]
         /\ UNCHANGED <<keys, LUAL_BUFFERSIZE>>

Led25519_verify == base_evp_verify("ed25519_verify", NID_ED25519)

Lrsassa_pkcs1_256_verify == base_evp_verify("rsassa_pkcs1_256_verify", NID_rsaEncryption)

Lrsassa_pss_256_verify == base_evp_verify("rsassa_pss_256_verify", NID_rsassaPss)

Lecdsa_sha256_verify == base_evp_verify("ecdsa_sha256_verify", NID_X9_62_id_ecPublicKey)

(* ------------------------------- AES-GCM ------------------------------ *)

Byte == 0 .. ByteTop

Modulus == ByteTop + 1

AesKeys == {Str(16, 0), Str(32, 0)}

Nonces == {Str(12, 0), Str(11, 0)}

Plaintexts == UNION {[1 .. n -> Byte] : n \in 0 .. MaxPlainLen}

RECURSIVE Sum(_)
Sum(s) == IF s = << >> THEN 0 ELSE Head(s) + Sum(Tail(s))

\* the native cipher: a counter-mode key stream added to the text, and the
\* 16 byte tag over the ciphertext
KeyStream(key, iv, i) == ((key.len \div 16) + key.id + iv.id + i) % Modulus

EVP_EncryptUpdate(key, iv, pt) ==
    [i \in 1 .. Len(pt) |-> (pt[i] + KeyStream(key, iv, i)) % Modulus]

EVP_DecryptUpdate(key, iv, ct) ==
    [i \in 1 .. Len(ct) |->
        (ct[i] + Modulus - KeyStream(key, iv, i)) % Modulus]

GcmTag(key, iv, ct) ==
    [j \in 1 .. 16 |->
        ((key.len \div 16) + key.id + iv.id + Sum(ct) + Len(ct) + j)
            % Modulus]

\* EVP_DecryptFinal_ex: 1 when the tag set on the context is the tag of the
\* ciphertext that went through the update, 0 otherwise
EVP_DecryptFinal_ex(key, iv, ct, tag) ==
    IF tag = GcmTag(key, iv, ct) THEN 1 ELSE 0

\* s with byte i replaced by the next byte value
Flip(s, i) == [s EXCEPT ![i] = (s[i] + 1) % Modulus]

\* what the caller may hand to decrypt in place of a ciphertext ct: ct
\* itself, ct with one byte altered, or ct with its last byte cut off
Ciphertexts(ct) ==
    {ct} \cup {Flip(ct, i) : i \in 1 .. Len(ct)}
         \cup {SubSeq(ct, 1, Len(ct) - 1)}

\* the first n native calls of a run that stops at call `fail` (0: at none)
Run(names, fail) ==
    LET n == IF fail = 0 THEN Len(names) ELSE fail
    IN [calls |-> SubSeq(names, 1, n),
        rets |-> [i \in 1 .. n |-> IF i = fail THEN 0 ELSE 1]]

\* the key length check with any AES key size accepted
KeyLenOk_anysize(key_len, expected_key_len) == key_len \in {16, 32}

\* line 318 / 388: key_len != expected_key_len
KeyLenOk(key_len, expected_key_len) == key_len = expected_key_len

\* the argument checks of lines 314-324
EncryptArgsOk(key, iv, expected_key_len, nargs) ==
    /\ KeyLenOk(key.len, expected_key_len)
    /\ iv.len = 12
    /\ nargs <= 3

\* the argument checks of lines 384-395
DecryptArgsOk(key, iv, ct, expected_key_len, nargs) ==
    /\ KeyLenOk(key.len, expected_key_len)
    /\ iv.len = 12
    /\ Len(ct) > 16
    /\ nargs <= 3

EncryptCalls ==
    <<"EVP_EncryptInit_ex", "EVP_EncryptInit_ex(key,iv)", "EVP_EncryptUpdate",
      "EVP_EncryptFinal_ex", "EVP_CIPHER_CTX_ctrl(GET_TAG)">>

\* Laes_gcm_encrypt(L, cipher, expected_key_len); fail is the native call
\* that fails (0: none; 6: none, but EVP_EncryptFinal_ex reports that it
\* wrote bytes)
Laes_gcm_encrypt(op, expected_key_len) ==
    \E key \in AesKeys, iv \in Nonces, pt \in Plaintexts, nargs \in {3, 4},
       fail \in 0 .. Len(EncryptCalls) + 1 :
      LET argsok == EncryptArgsOk(key, iv, expected_key_len, nargs)
          ctx == Managed("EVP_CIPHER_CTX")
          base == [Blank EXCEPT !.op = op, !.ckey = key, !.iv = iv,
                                !.arg = pt, !.nargs = nargs]
          run == IF fail = 6
                 THEN [calls |-> SubSeq(EncryptCalls, 1, 4),
                       rets |-> <<1, 1, 1, 1>>]
                 ELSE Run(EncryptCalls, fail)
          held == [base EXCEPT !.acquired = ctx.acquired,
                               !.released = ctx.released,
                               !.calls = run.calls,
                               !.rets = run.rets]
          body == EVP_EncryptUpdate(key, iv, pt)
          out == body \o GcmTag(key, iv, body)
          \* luaL_prepbuffsize(.., plaintext_len+16), filled by the update
          \* (call 3) and by the tag (call 5)
          buf == IF Len(run.calls) < 3 \/ fail = 3 THEN << >>
                 ELSE IF Len(run.calls) < 5 \/ fail = 5 THEN body
                 ELSE out
      IN \* no native call is reached, so none fails, when the arguments
         \* are rejected
         /\ argsok \/ fail = 0
         /\ last' =
              IF ~argsok THEN [base EXCEPT !.outcome = "InvalidArgument"]
              ELSE IF fail # 0
              THEN [held EXCEPT !.outcome = "CryptoFailure",
                                !.cap = IF Len(run.calls) < 3 THEN 0
                                        ELSE Len(pt) + 16,
                                !.written = Len(buf),
                                !.buffer = buf]
              ELSE [held EXCEPT !.outcome = "ciphertext",
                                !.cap = Len(pt) + 16,
                                !.written = Len(out),
                                !.buffer = out,
                                !.len = Len(body) + 16,
                                !.bytes = SubSeq(out, 1, Len(body) + 16)]
         /\ UNCHANGED <<keys, LUAL_BUFFERSIZE>>

Laes_128_gcm_encrypt == Laes_gcm_encrypt("aes_128_gcm_encrypt", 16)

Laes_256_gcm_encrypt == Laes_gcm_encrypt("aes_256_gcm_encrypt", 32)

\* the caller's view of a decrypt that takes only ret < 0 for a failure
DecryptReturn_negonly(ret, plaintext) ==
    IF ret < 0 THEN [outcome |-> "VerifyFailure", bytes |-> << >>]
    ELSE [outcome |-> "plaintext", bytes |-> plaintext]

\* lines 432-441: nil, "verify-failed" when ret <= 0, the buffer otherwise
DecryptReturn(ret, plaintext) ==
    IF ret <= 0 THEN [outcome |-> "VerifyFailure", bytes |-> << >>]
    ELSE [outcome |-> "plaintext", bytes |-> plaintext]

DecryptCalls ==
    <<"EVP_DecryptInit_ex", "EVP_DecryptInit_ex(key,iv)", "EVP_DecryptUpdate",
      "EVP_CIPHER_CTX_ctrl(SET_TAG)", "EVP_DecryptFinal_ex">>

\* Laes_gcm_decrypt(L, cipher, expected_key_len), called on what the
\* encrypt before it returned (as it is, altered or cut short); fail is the
\* native call before the finalize that fails (0: none)
Laes_gcm_decrypt(op, expected_key_len) ==
    \E key \in AesKeys, iv \in Nonces, ct \in Ciphertexts(last.bytes),
       nargs \in {3, 4}, fail \in 0 .. 4 :
      LET box == [key |-> last.ckey, iv |-> last.iv, pt |-> last.arg,
                  ct |-> last.bytes]
          argsok == DecryptArgsOk(key, iv, ct, expected_key_len, nargs)
          ctx == Managed("EVP_CIPHER_CTX")
          base == [Blank EXCEPT !.op = op, !.ckey = key, !.iv = iv,
                                !.arg = ct, !.nargs = nargs,
                                !.sealed = box]
          run == Run(DecryptCalls, fail)
          body == SubSeq(ct, 1, Len(ct) - 16)
          tag == SubSeq(ct, Len(ct) - 15, Len(ct))
          plaintext == EVP_DecryptUpdate(key, iv, body)
          ret == EVP_DecryptFinal_ex(key, iv, body, tag)
          got == DecryptReturn(ret, plaintext)
          held == [base EXCEPT !.acquired = ctx.acquired,
                               !.released = ctx.released,
                               !.calls = run.calls]
          \* luaL_prepbuffsize(.., ciphertext_len), filled by the update
          buf == IF Len(run.calls) < 3 \/ fail = 3 THEN << >> ELSE plaintext
      IN /\ last.outcome = "ciphertext"
         /\ argsok \/ fail = 0
         /\ last' =
              IF ~argsok THEN [base EXCEPT !.outcome = "InvalidArgument"]
              ELSE IF fail # 0
              THEN [held EXCEPT !.outcome = "CryptoFailure",
                                !.rets = run.rets,
                                !.cap = IF Len(run.calls) < 3 THEN 0
                                        ELSE Len(ct),
                                !.written = Len(buf),
                                !.buffer = buf]
              ELSE [held EXCEPT !.outcome = got.outcome,
                                !.rets = <<1, 1, 1, 1, ret>>,
                                !.cap = Len(ct),
                                !.written = Len(plaintext),
                                !.buffer = plaintext,
                                !.len = Len(got.bytes),
                                !.bytes = got.bytes]
         /\ UNCHANGED <<keys, LUAL_BUFFERSIZE>>

Laes_128_gcm_decrypt == Laes_gcm_decrypt("aes_128_gcm_decrypt", 16)

Laes_256_gcm_decrypt == Laes_gcm_decrypt("aes_256_gcm_decrypt", 32)

(* ------------------------- ECDSA signature codec ---------------------- *)

\* byte lengths of the integers and strings handed to the codec: none, one
\* byte, a P-256 and a P-521 coordinate, and just past each Lua build's
\* buffer
Lengths == {0, 1, 32, 66, 1025, 8193}

\* a BIGNUM: the number of its significant bytes and whether the top bit
\* of the first of them is set
BigNums == [bytes : Lengths, top : BOOLEAN]

\* a big-endian byte string: its length, its leading zero bytes and the top
\* bit of the first byte that is not zero
ByteStrings ==
    {[len |-> n, zeros |-> z, top |-> t] :
        n \in Lengths, z \in {0, 1}, t \in BOOLEAN}

\* BN_bin2bn: leading zero bytes do not count
BN_bin2bn(str) ==
    LET n == IF str.zeros >= str.len THEN 0 ELSE str.len - str.zeros
    IN [bytes |-> n, top |-> n > 0 /\ str.top]

\* BN_num_bytes, also the number of bytes BN_bn2bin writes
BN_num_bytes(bn) == bn.bytes

\* the length of a DER length field for a content of n bytes
DerLengthOctets(n) ==
    IF n < 128 THEN 1 ELSE IF n < 256 THEN 2 ELSE IF n < 65536 THEN 3 ELSE 4

\* the length of the DER INTEGER holding bn: a zero byte goes in front when
\* the top bit is set, and zero is one byte
DerInteger(bn) ==
    LET n == IF bn.bytes = 0 THEN 1
             ELSE bn.bytes + (IF bn.top THEN 1 ELSE 0)
    IN 1 + DerLengthOctets(n) + n

\* i2d_ECDSA_SIG: the length of SEQUENCE { INTEGER r, INTEGER s }
i2d_ECDSA_SIG(r, s) ==
    LET n == DerInteger(r) + DerInteger(s)
    IN 1 + DerLengthOctets(n) + n

Max(a, b) == IF a > b THEN a ELSE b

\* Lparse_ecdsa_signature: der is "malformed", or the (r, s) that
\* d2i_ECDSA_SIG reads from it
Lparse_ecdsa_signature ==
    \E wellformed \in BOOLEAN, r \in BigNums, s \in BigNums,
       dies \in BOOLEAN :
      LET base == [Blank EXCEPT !.op = "parse_ecdsa_signature",
                                !.calls = <<"d2i_ECDSA_SIG">>]
          rlen == BN_num_bytes(r)
          slen == BN_num_bytes(s)
          \* luaL_prepbuffer for each of rb and sb, filled by BN_bn2bin
          written == Max(rlen, slen)
          read == [base EXCEPT !.rets = <<1>>,
                               !.acquired = <<"ECDSA_SIG">>,
                               !.cap = LUAL_BUFFERSIZE,
                               !.written = written]
      IN /\ wellformed \/ (r.bytes = 0 /\ ~r.top /\ s.bytes = 0 /\ ~s.top)
         /\ r.bytes > 0 \/ ~r.top
         /\ s.bytes > 0 \/ ~s.top
         /\ dies => wellformed /\ Overruns(LUAL_BUFFERSIZE, written)
         /\ last' =
              IF ~wellformed
              THEN [base EXCEPT !.outcome = "ParseFailure", !.rets = <<0>>]
              ELSE IF dies THEN [read EXCEPT !.outcome = "crash"]
              ELSE [read EXCEPT !.outcome = "r, s",
                                !.released = <<"ECDSA_SIG">>,
                                !.probe = rlen,   \* length of the first string
                                !.len = slen]     \* length of the second
         /\ UNCHANGED <<keys, LUAL_BUFFERSIZE>>

\* Lbuild_ecdsa_signature: ECDSA_SIG_new comes before the arguments are
\* checked, and luaL_checklstring leaves by raising
Lbuild_ecdsa_signature ==
    \E argsok \in BOOLEAN, rbin \in ByteStrings, sbin \in ByteStrings,
       dies \in BOOLEAN :
      LET base == [Blank EXCEPT !.op = "build_ecdsa_signature",
                                !.calls = <<"ECDSA_SIG_new">>,
                                !.rets = <<1>>,
                                !.acquired = <<"ECDSA_SIG">>]
          r == BN_bin2bn(rbin)
          s == BN_bin2bn(sbin)
          len == i2d_ECDSA_SIG(r, s)
          \* luaL_prepbuffer, filled by i2d_ECDSA_SIG
          built == [base EXCEPT !.calls = <<"ECDSA_SIG_new", "BN_bin2bn",
                                            "BN_bin2bn", "ECDSA_SIG_set0",
                                            "i2d_ECDSA_SIG">>,
                                !.rets = <<1, 1, 1, 1, len>>,
                                !.cap = LUAL_BUFFERSIZE,
                                !.written = len]
          canon == [len |-> 0, zeros |-> 0, top |-> FALSE]
      IN /\ argsok \/ (rbin = canon /\ sbin = canon)
         /\ rbin.len > rbin.zeros \/ ~rbin.top
         /\ sbin.len > sbin.zeros \/ ~sbin.top
         /\ dies => argsok /\ Overruns(LUAL_BUFFERSIZE, len)
         /\ last' =
              IF ~argsok THEN [base EXCEPT !.outcome = "BadArgument"]
              ELSE IF dies THEN [built EXCEPT !.outcome = "crash"]
              ELSE [built EXCEPT !.outcome = "der",
                                 !.released = <<"ECDSA_SIG">>,
                                 !.len = len]
         /\ UNCHANGED <<keys, LUAL_BUFFERSIZE>>

(* --------------------------- specifications --------------------------- *)

Init ==
    /\ keys = {}
    /\ last = Blank
    /\ LUAL_BUFFERSIZE \in LuaBufferSizes

\* key handles with sign and verify
NextKeys ==
    \/ Lgenerate_ed25519_keypair
    \/ Limport_private_pem
    \/ Limport_public_pem
    \/ Lpkey_finalizer
    \/ Lpkey_meth_public_pem
    \/ Lpkey_meth_private_pem
    \/ Led25519_sign
    \/ Lrsassa_pkcs1_256_sign
    \/ Lrsassa_pss_256_sign
    \/ Lecdsa_sha256_sign
    \/ Led25519_verify
    \/ Lrsassa_pkcs1_256_verify
    \/ Lrsassa_pss_256_verify
    \/ Lecdsa_sha256_verify

\* AES-GCM
NextAead ==
    \/ Laes_128_gcm_encrypt
    \/ Laes_256_gcm_encrypt
    \/ Laes_128_gcm_decrypt
    \/ Laes_256_gcm_decrypt

\* the ECDSA signature codec
NextCodec ==
    \/ Lparse_ecdsa_signature
    \/ Lbuild_ecdsa_signature

Next == NextKeys \/ NextAead \/ NextCodec

SpecKeys == Init /\ [][NextKeys]_vars

\* AES-GCM asks for its buffers by size (luaL_prepbuffsize), so the Lua
\* build's buffer size plays no part in it
InitAead == Init /\ LUAL_BUFFERSIZE = 1024

SpecAead == InitAead /\ [][NextAead]_vars

SpecCodec == Init /\ [][NextCodec]_vars

Spec == Init /\ [][Next]_vars

(* ------------------------------- claims ------------------------------- *)

SignOps ==
    {"ed25519_sign", "rsassa_pkcs1_256_sign", "rsassa_pss_256_sign",
     "ecdsa_sha256_sign"}

VerifyOps ==
    {"ed25519_verify", "rsassa_pkcs1_256_verify", "rsassa_pss_256_verify",
     "ecdsa_sha256_verify"}

EncryptOps == {"aes_128_gcm_encrypt", "aes_256_gcm_encrypt"}

DecryptOps == {"aes_128_gcm_decrypt", "aes_256_gcm_decrypt"}

CodecOps == {"parse_ecdsa_signature", "build_ecdsa_signature"}

\* the key algorithm each sign/verify family is for
FamilyAlgorithm(op) ==
    IF op \in {"ed25519_sign", "ed25519_verify"} THEN "ED25519"
    ELSE IF op \in {"ecdsa_sha256_sign", "ecdsa_sha256_verify"}
    THEN "id-ecPublicKey"
    ELSE "rsaEncryption"

\* the key length each AES-GCM function is for
CipherKeyLen(op) ==
    IF op \in {"aes_128_gcm_encrypt", "aes_128_gcm_decrypt"} THEN 16 ELSE 32

\* the last call got as far as the native call `name`
Called(name) == \E i \in 1 .. Len(last.calls) : last.calls[i] = name

\* the value the native call `name` returned in the last call
Returned(name) ==
    last.rets[CHOOSE i \in 1 .. Len(last.calls) : last.calls[i] = name]

\* C1 as amended: a signing call on a handle without private material
\* makes no native call and fails, with CapabilityMismatch when the
\* handle's algorithm is the one of the family and with TypeMismatch when
\* it is not (the type is checked first).
C1_PublicHandleNeverSigns ==
    (last.op \in SignOps /\ ~last.key.private) =>
        /\ last.calls = << >>
        /\ last.outcome = IF last.key.type = FamilyAlgorithm(last.op)
                          THEN "CapabilityMismatch" ELSE "TypeMismatch"

\* C1 witness: a public-only handle of the right algorithm was handed to a
\* signing function and rejected
C1_Witness ==
    /\ last.op \in SignOps
    /\ ~last.key.private
    /\ last.key.type = FamilyAlgorithm(last.op)
    /\ last.outcome = "CapabilityMismatch"

\* C1 as claimed: every signing call on a handle without private material
\* fails with CapabilityMismatch and makes no native signing call.
C1_AlwaysCapabilityMismatch ==
    (last.op \in SignOps /\ ~last.key.private) =>
        /\ last.calls = << >>
        /\ last.outcome = "CapabilityMismatch"

C3_RoundTrip ==
    ( /\ last.op \in DecryptOps
      /\ last.nargs = 3
      /\ last.arg = last.sealed.ct
      /\ last.ckey = last.sealed.key
      /\ last.iv = last.sealed.iv
      /\ CipherKeyLen(last.op) = last.ckey.len
      /\ \A i \in 1 .. Len(last.rets) : i < 5 => last.rets[i] = 1 )
    => /\ last.outcome = "plaintext"
       /\ last.bytes = last.sealed.pt

\* C4: when the finalize step of decrypt reports failure the caller gets
\* VerifyFailure and not one byte of what the update step produced; an
\* altered tag byte is such a failure.
C4_VerifyFailureNoPlaintext ==
    (last.op \in DecryptOps /\ Len(last.calls) = 5) =>
        /\ last.rets[5] <= 0 =>
              /\ last.outcome = "VerifyFailure"
              /\ last.bytes = << >>
              /\ last.len = 0
        /\ (\E i \in 1 .. 16 :
              /\ Len(last.sealed.ct) >= i
              /\ last.arg = Flip(last.sealed.ct, Len(last.sealed.ct) + 1 - i))
           => last.outcome = "VerifyFailure"

\* C4 witness: a ciphertext with an altered tag byte went through the
\* update step, which produced bytes, and was rejected at the finalize
C4_Witness ==
    /\ last.op \in DecryptOps
    /\ Len(last.calls) = 5
    /\ last.rets[5] = 0
    /\ last.buffer # << >>
    /\ last.arg = Flip(last.sealed.ct, Len(last.sealed.ct))
    /\ last.outcome = "VerifyFailure"

\* C5: a sign or verify call on a handle whose algorithm is not the one of
\* the family fails with TypeMismatch before any native context exists, and
\* a handle of the family's algorithm is never rejected with TypeMismatch.
C5_TypeMismatch ==
    (last.op \in SignOps \cup VerifyOps) =>
        IF last.key.type # FamilyAlgorithm(last.op)
        THEN /\ last.outcome = "TypeMismatch"
             /\ last.calls = << >>
             /\ last.acquired = << >>
        ELSE last.outcome # "TypeMismatch"

\* C5 witness: an RSA key was handed to a function of another family and
\* rejected
C5_Witness ==
    /\ last.op \in SignOps \cup VerifyOps
    /\ last.key.type = "rsaEncryption"
    /\ FamilyAlgorithm(last.op) # "rsaEncryption"
    /\ last.outcome = "TypeMismatch"

\* C6: encrypt and decrypt with a key that is not of the cipher's length,
\* or a nonce that is not 12 bytes, fail with InvalidArgument before any
\* cipher context is made or native call runs, and give no bytes.
C6_WrongLengthRejected ==
    ( /\ last.op \in EncryptOps \cup DecryptOps
      /\ (last.ckey.len # CipherKeyLen(last.op) \/ last.iv.len # 12) )
    => /\ last.outcome = "InvalidArgument"
       /\ last.calls = << >>
       /\ last.acquired = << >>
       /\ last.bytes = << >>
       /\ last.buffer = << >>

\* C6 witness: a 32 byte key with a good nonce was handed to an AES-128
\* function and rejected
C6_Witness ==
    /\ last.op \in {"aes_128_gcm_encrypt", "aes_128_gcm_decrypt"}
    /\ last.ckey.len = 32
    /\ last.iv.len = 12
    /\ last.outcome = "InvalidArgument"

\* C7: generate_ed25519_keypair returns a private Ed25519 handle on a
\* generated native key, or fails with CryptoFailure; it never returns a
\* handle on no native key.
C7_GenerateOrFail ==
    (last.op = "generate_ed25519_keypair") =>
        \/ /\ last.outcome = "handle"
           /\ last.key.pkey # NullKey
           /\ last.key.type = "ED25519"
           /\ last.key.private
        \/ /\ last.outcome = "CryptoFailure"
           /\ \E i \in 1 .. Len(last.rets) : last.rets[i] # 1

\* C8: every native object a call acquires for itself is released by the
\* time the call returns or raises, on every path.
C8_ReleasedOnEveryPath ==
    (last.outcome # "crash") =>
        \A kind \in {"EVP_MD_CTX", "EVP_CIPHER_CTX", "BIO", "ECDSA_SIG",
                     "EVP_PKEY_CTX"} :
            Cardinality({i \in 1 .. Len(last.acquired) :
                            last.acquired[i] = kind})
              = Cardinality({i \in 1 .. Len(last.released) :
                                last.released[i] = kind})

\* C9: in a signing call the bytes written into the output buffer (the
\* zero fill of the probed length and the signature) never exceed the
\* capacity of the buffer that was prepared, for every key size.
C9_SignatureFitsBuffer ==
    (last.op \in SignOps) => last.written <= last.cap

\* C10: in the ECDSA signature codec the bytes written into an output
\* buffer never exceed the capacity prepared for it, whatever the lengths
\* of r and s.
C10_CodecFitsBuffer ==
    (last.op \in CodecOps) => last.written <= last.cap
====
